---------------------------- MODULE Spec2Model ----------------------------
(***************************************************************************)
(* TripRoute-Pro: the Hours-of-Service calculator, the ELD log generator   *)
(* and the route stop planner of backend/trucking/services.py, and the     *)
(* views of backend/trucking/views.py that call them.                      *)
(*                                                                         *)
(* Numbers.  Python floats are modelled by exact fixed-point integers:     *)
(*   - cycle hours in hundredths of an hour (the DecimalField of the       *)
(*     request and of Driver has two decimal places);                      *)
(*   - driving hours in ticks of 1/TicksPerHour hour;                      *)
(*   - minutes, miles and hours of the day as integers.                    *)
(* Strings are TLA+ strings, built the way the f-strings build them.       *)
(***************************************************************************)
EXTENDS Integers, Sequences, FiniteSets, TLC

VARIABLES
    time_entries,         \* HOS: the time_entries argument of the calculator
    current_cycle_hours,  \* HOS: the current_cycle_hours argument (hundredths)
    returned,             \* HOS: the calls that have returned so far
    hos_status,           \* HOS: what calculate_hos_status returned
    violations,           \* HOS: what calculate_violations returned
    latest_log,           \* HOS: what the hos-status endpoint found as latest log
    response,             \* HOS: the hos_status the hos-status endpoint serialises
    call,                 \* ELD: which entry point runs
    start_time,           \* ELD: the start_time argument, [day, hour]
    total_distance,       \* ELD: the total_distance argument (hundredths of a mile)
    total_driving_hours,  \* ELD: the driving-hours argument (ticks)
    pc,                   \* ELD: where the synthesis stands
    logs,                 \* ELD: generate_multi_day_logs' logs / eld_logs_data
    current_date,         \* ELD: the loop's current_date, [day, hour]
    remaining_hours,      \* ELD: the loop's remaining_hours (ticks)
    day_count,            \* ELD: the loop's day_count
    daily,                \* ELD: history of daily_driving_hours, one per iteration
    route_distance,       \* stops: total_distance of _generate_stops (miles)
    route_duration,       \* stops: total_duration of _generate_stops (minutes)
    stops,                \* stops: what _generate_stops returned
    step,                 \* trip: where TripViewSet.calculate stands
    request,              \* trip: the request data of TripViewSet.calculate
    geocoded,             \* trip: how many locations calculate_route has geocoded
    route_data,           \* trip: what calculate_route returned
    db,                   \* trip: the records created, in the order of creation
    failure,              \* trip: history: the failure that ended the run
    http_response         \* trip: the Response of TripViewSet.calculate

hosVars == <<time_entries, current_cycle_hours, returned, hos_status,
             violations, latest_log, response>>

eldVars == <<call, start_time, total_distance, total_driving_hours, pc, logs,
             current_date, remaining_hours, day_count, daily>>

stopVars == <<route_distance, route_duration, stops>>

tripVars == <<step, request, geocoded, route_data, db, failure, http_response>>

vars == <<hosVars, eldVars, stopVars, tripVars>>

-----------------------------------------------------------------------------
(* Bounds of the model *)

\* The longest time_entries sequence the calculator is given.
MaxEntries == 24

\* The most whole driving hours a trip is synthesized for.
MaxDrivingHours == 25

\* The most fuel intervals, and rest intervals, a planned route spans.
MaxFuelIntervals == 3

MaxRestIntervals == 3

-----------------------------------------------------------------------------
(* Helpers *)

Max(a, b) == IF a >= b THEN a ELSE b

Min(a, b) == IF a <= b THEN a ELSE b

\* Python's {n:02d} for n >= 0.
Pad2(n) == IF n < 10 THEN "0" \o ToString(n) ELSE ToString(n)

\* The four duty statuses (models.py STATUS choices are free text in the
\* JSON field; the serializer of the spec names these four).
Statuses == {"off-duty", "on-duty", "driving", "sleeper-berth"}

\* None, for a variable that holds a record or nothing.
None == [none |-> TRUE]

-----------------------------------------------------------------------------
(* HOSCalculator *)

\* One hundredth of an hour is the unit of cycle hours.
CycleScale == 100

\* A formatter that forgets to pad the minutes to two digits.
FormatTime_NoPad(minutes) ==
    ToString(minutes \div 60) \o "h " \o ToString(minutes % 60) \o "m"

\* HOSCalculator._format_time
FormatTime(minutes) ==
    LET hours == minutes \div 60
        mins  == minutes % 60
    IN  ToString(hours) \o "h " \o Pad2(mins) \o "m"

\* Python's f"{x:.1f}" for x >= 0 given in hundredths (no input of the model
\* lies on a tie, where the binary value of the float decides).
FormatOneDecimal(c) ==
    LET tenths == (c + 5) \div 10
    IN  ToString(tenths \div 10) \o "." \o ToString(tenths % 10)

\* str(Decimal) of a two-decimal-place DecimalField, given in hundredths.
FormatDecimal2(c) == ToString(c \div CycleScale) \o "." \o Pad2(c % CycleScale)

\* sum(1 for entry in time_entries if entry.get('status') in S)
RECURSIVE CountStatus(_, _)
CountStatus(entries, S) ==
    IF entries = <<>> THEN 0
    ELSE (IF Head(entries).status \in S THEN 1 ELSE 0)
         + CountStatus(Tail(entries), S)

\* A loop whose non-driving branch forgets to reset continuous_driving.
RECURSIVE DrivingLoop_NoReset(_, _)
DrivingLoop_NoReset(entries, st) ==
    IF entries = <<>> THEN st
    ELSE IF Head(entries).status = "driving"
         THEN DrivingLoop_NoReset(Tail(entries),
                  [continuous_driving |-> st.continuous_driving + 1,
                   max_continuous |-> Max(st.max_continuous,
                                          st.continuous_driving + 1)])
         ELSE DrivingLoop_NoReset(Tail(entries), st)

\* The loop of calculate_hos_status (lines 177-182) and of
\* calculate_violations (lines 236-243), run over entries from the state
\* [continuous_driving, max_continuous]; the first loop keeps no maximum and
\* reads only continuous_driving.
RECURSIVE DrivingLoop(_, _)
DrivingLoop(entries, st) ==
    IF entries = <<>> THEN st
    ELSE IF Head(entries).status = "driving"
         THEN DrivingLoop(Tail(entries),
                  [continuous_driving |-> st.continuous_driving + 1,
                   max_continuous |-> Max(st.max_continuous,
                                          st.continuous_driving + 1)])
         ELSE DrivingLoop(Tail(entries),
                  [continuous_driving |-> 0,
                   max_continuous |-> st.max_continuous])

LoopStart == [continuous_driving |-> 0, max_continuous |-> 0]

\* A count of driving minutes that takes on-duty entries for driving.
DrivingMinutes_WithOnDuty(entries) ==
    CountStatus(entries, {"driving", "on-duty"}) * 60

\* driving_minutes (lines 165 and 207)
DrivingMinutes(entries) == CountStatus(entries, {"driving"}) * 60

\* on_duty_minutes (lines 166 and 208)
OnDutyMinutes(entries) == CountStatus(entries, {"driving", "on-duty"}) * 60

\* cycle_used_hours (lines 173 and 209), in hundredths of an hour;
\* on_duty_minutes is a multiple of 60, so the division is exact.
CycleUsedHours(entries, cycle_hours) ==
    cycle_hours + (OnDutyMinutes(entries) * CycleScale) \div 60

\* A status loop that reports the longest streak, as the violation loop does.
ContinuousDriving_Longest(entries) ==
    DrivingLoop(entries, LoopStart).max_continuous

\* continuous_driving after the loop of calculate_hos_status
ContinuousDriving(entries) ==
    DrivingLoop(entries, LoopStart).continuous_driving

\* A violation loop that reports the trailing streak, as the status loop does.
MaxContinuous_Trailing(entries) ==
    DrivingLoop(entries, LoopStart).continuous_driving

\* max_continuous after the loop of calculate_violations
MaxContinuous(entries) ==
    DrivingLoop(entries, LoopStart).max_continuous

\* A compliance test whose on-duty limit is exclusive.
IsCompliant_Exclusive(driving_minutes, on_duty_minutes, cycle_used_hours, continuous_driving) ==
    /\ driving_minutes <= 11 * 60
    /\ on_duty_minutes < 14 * 60
    /\ cycle_used_hours <= 70 * CycleScale
    /\ continuous_driving <= 8

\* is_compliant of calculate_hos_status
IsCompliant(driving_minutes, on_duty_minutes, cycle_used_hours, continuous_driving) ==
    /\ driving_minutes <= 11 * 60
    /\ on_duty_minutes <= 14 * 60
    /\ cycle_used_hours <= 70 * CycleScale
    /\ continuous_driving <= 8

\* HOSCalculator.calculate_hos_status
CalculateHosStatus(entries, cycle_hours) ==
    LET driving_minutes == DrivingMinutes(entries)
        on_duty_minutes == OnDutyMinutes(entries)
        drive_time_left_minutes == Max(0, 11 * 60 - driving_minutes)
        on_duty_left_minutes == Max(0, 14 * 60 - on_duty_minutes)
        cycle_used_hours == CycleUsedHours(entries, cycle_hours)
        continuous_driving == ContinuousDriving(entries)
        next_break_minutes == Max(0, 8 * 60 - continuous_driving * 60)
        is_compliant == IsCompliant(driving_minutes, on_duty_minutes,
                                    cycle_used_hours, continuous_driving)
    IN  [drive_time_left |-> FormatTime(drive_time_left_minutes),
         on_duty_left    |-> FormatTime(on_duty_left_minutes),
         cycle_used      |-> FormatOneDecimal(cycle_used_hours) \o "h / 70h",
         next_break      |-> FormatTime(next_break_minutes),
         is_compliant    |-> is_compliant]

\* HOSCalculator.calculate_violations
CalculateViolations(entries, cycle_hours) ==
    LET driving_minutes == DrivingMinutes(entries)
        on_duty_minutes == OnDutyMinutes(entries)
        cycle_used_hours == CycleUsedHours(entries, cycle_hours)
        max_continuous == MaxContinuous(entries)
        v1 == IF driving_minutes > 11 * 60
              THEN <<[type |-> "driving_limit",
                      description |-> "Exceeded 11-hour driving limit by "
                          \o FormatTime(driving_minutes - 11 * 60),
                      severity |-> "violation"]>>
              ELSE <<>>
        v2 == IF on_duty_minutes > 14 * 60
              THEN <<[type |-> "duty_limit",
                      description |-> "Exceeded 14-hour on-duty limit by "
                          \o FormatTime(on_duty_minutes - 14 * 60),
                      severity |-> "violation"]>>
              ELSE <<>>
        v3 == IF cycle_used_hours > 70 * CycleScale
              THEN <<[type |-> "duty_limit",
                      description |-> "Exceeded 70-hour cycle limit by "
                          \o FormatOneDecimal(cycle_used_hours - 70 * CycleScale)
                          \o " hours",
                      severity |-> "violation"]>>
              ELSE <<>>
        v4 == IF max_continuous > 8
              THEN <<[type |-> "break_required",
                      description |-> "Drove " \o ToString(max_continuous)
                          \o " hours without required 30-minute break",
                      severity |-> "violation"]>>
              ELSE <<>>
    IN  v1 \o v2 \o v3 \o v4

\* The default status of DriverViewSet.hos_status for a driver with no log.
DefaultHosStatus(cycle_hours) ==
    [drive_time_left |-> "11h 00m",
     on_duty_left    |-> "14h 00m",
     cycle_used      |-> FormatDecimal2(cycle_hours) \o "h / 70h",
     next_break      |-> "8h 00m",
     is_compliant    |-> TRUE]

-----------------------------------------------------------------------------
(* Inputs of the HOS calculator *)

\* n hourly entries of one status, numbered from hour `from`.
Run(status, from, n) ==
    [i \in 1..n |-> [hour |-> from + i - 1, status |-> status]]

\* Timelines of at most three runs of one status each: every full day of
\* MaxEntries entries of that shape, and every shorter sequence of at most
\* two runs (the empty sequence among them).
EntriesInputs ==
    { Run(s1, 0, a) \o Run(s2, a, b) \o Run(s3, a + b, c) :
        <<s1, s2, s3, a, b, c>> \in
            { t \in Statuses \X Statuses \X Statuses
                    \X (0..MaxEntries) \X (0..MaxEntries) \X (0..MaxEntries) :
                /\ t[4] + t[5] <= MaxEntries
                /\ t[6] \in {0, MaxEntries - t[4] - t[5]} } }

\* Cycle hours before the day, in hundredths: none, 56 h (which 14 on-duty
\* hours bring to exactly 70), just above it, the serializer's maximum 70,
\* and a Driver row above 70.
CycleInputs == {0, 5600, 5601, 7000, 7001}

-----------------------------------------------------------------------------
(* The HOS calls as actions.  The three calls share no state, so one order *)
(* of them is explored: status, then violations (the order of              *)
(* TripViewSet.calculate, lines 194-203), then the hos-status endpoint.    *)

\* The HOS variables while another component runs.
HosIdle ==
    /\ time_entries = <<>>
    /\ current_cycle_hours = 0
    /\ returned = {}
    /\ hos_status = None
    /\ violations = <<>>
    /\ latest_log = None
    /\ response = None

\* The ELD variables while another component runs.
EldIdle ==
    /\ call = "none"
    /\ start_time = [day |-> 0, hour |-> 0]
    /\ total_distance = 0
    /\ total_driving_hours = 0
    /\ pc = "idle"
    /\ logs = <<>>
    /\ current_date = [day |-> 0, hour |-> 0]
    /\ remaining_hours = 0
    /\ day_count = 0
    /\ daily = <<>>

\* The stop-planner variables while another component runs.
StopsIdle ==
    /\ route_distance = 0
    /\ route_duration = 0
    /\ stops = <<>>

\* The variables of TripViewSet.calculate while no request is served.
TripIdle ==
    /\ step = "idle"
    /\ request = None
    /\ geocoded = 0
    /\ route_data = None
    /\ db = <<>>
    /\ failure = None
    /\ http_response = None

InitHOS ==
    /\ EldIdle
    /\ StopsIdle
    /\ TripIdle
    /\ time_entries \in EntriesInputs
    /\ current_cycle_hours \in CycleInputs
    /\ returned = {}
    /\ hos_status = None
    /\ violations = <<>>
    /\ latest_log = None
    /\ response = None

\* hos_calculator.calculate_hos_status(time_entries, current_cycle_hours)
CallCalculateHosStatus ==
    /\ returned = {}
    /\ hos_status' = CalculateHosStatus(time_entries, current_cycle_hours)
    /\ returned' = returned \cup {"status"}
    /\ UNCHANGED <<time_entries, current_cycle_hours, violations, latest_log,
                   response, eldVars, stopVars, tripVars>>

\* hos_calculator.calculate_violations(time_entries, current_cycle_hours)
CallCalculateViolations ==
    /\ returned = {"status"}
    /\ violations' = CalculateViolations(time_entries, current_cycle_hours)
    /\ returned' = returned \cup {"violations"}
    /\ UNCHANGED <<time_entries, current_cycle_hours, hos_status, latest_log,
                   response, eldVars, stopVars, tripVars>>

\* DriverViewSet.hos_status: the driver's latest log is absent, or is a log
\* whose time_entries are time_entries; the driver's current_cycle_hours is
\* current_cycle_hours.
HosStatusEndpoint ==
    /\ returned = {"status", "violations"}
    /\ \E log \in {None, [time_entries |-> time_entries]} :
         /\ latest_log' = log
         /\ response' =
              IF log # None /\ log.time_entries # <<>>
              THEN CalculateHosStatus(log.time_entries, current_cycle_hours)
              ELSE DefaultHosStatus(current_cycle_hours)
    /\ returned' = returned \cup {"endpoint"}
    /\ UNCHANGED <<time_entries, current_cycle_hours, hos_status, violations,
                   eldVars, stopVars, tripVars>>

NextHOS ==
    \/ CallCalculateHosStatus
    \/ CallCalculateViolations
    \/ HosStatusEndpoint

SpecHOS == InitHOS /\ [][NextHOS]_vars

-----------------------------------------------------------------------------
(* ELDLogGenerator *)

\* The resolution of driving hours: one tick is 1/300 hour, a fifth of a
\* minute, so that hours * 60 need not be a whole number of minutes.
TicksPerHour == 60 * 5

\* Python's int(x) for x = num / den >= 0: truncation.
IntOf(num, den) == num \div den

\* Python's round(x) for x = num / den >= 0: to the nearest, a tie to even.
RoundOf(num, den) ==
    LET q == num \div den
        r == num % den
    IN  IF 2 * r < den THEN q
        ELSE IF 2 * r > den THEN q + 1
        ELSE IF q % 2 = 0 THEN q ELSE q + 1

\* driving_time = int(driving_hours * 60) (line 270)
DrivingTime(driving_hours) == IntOf(driving_hours * 60, TicksPerHour)

\* A timeline whose driving block takes in the hour at which it ends.
StatusOfHour_InclusiveEnd(hour, current_hour, driving_hours) ==
    IF hour < current_hour THEN "off-duty"
    ELSE IF hour < current_hour + 1 THEN "on-duty"
    ELSE IF hour * TicksPerHour
                <= (current_hour + 1) * TicksPerHour + driving_hours
         THEN "driving"
    ELSE IF hour * TicksPerHour
                < (current_hour + 1) * TicksPerHour + driving_hours + TicksPerHour
         THEN "on-duty"
    ELSE "off-duty"

\* The status generate_log_for_trip gives to `hour` (lines 276-293).
StatusOfHour(hour, current_hour, driving_hours) ==
    IF hour < current_hour THEN "off-duty"
    ELSE IF hour < current_hour + 1 THEN "on-duty"
    ELSE IF hour * TicksPerHour
                < (current_hour + 1) * TicksPerHour + driving_hours
         THEN "driving"
    ELSE IF hour * TicksPerHour
                < (current_hour + 1) * TicksPerHour + driving_hours + TicksPerHour
         THEN "on-duty"
    ELSE "off-duty"

\* The remarks generate_log_for_trip appends at `hour` (lines 276-293).
RemarksOfHour(hour, current_hour, driving_hours) ==
    IF hour < current_hour THEN <<>>
    ELSE IF hour < current_hour + 1
         THEN IF hour = current_hour
              THEN <<Pad2(hour) \o ":00 - Begin pickup activities">>
              ELSE <<>>
    ELSE IF hour * TicksPerHour
                < (current_hour + 1) * TicksPerHour + driving_hours
         THEN IF hour = current_hour + 1
              THEN <<Pad2(hour) \o ":00 - Begin driving">>
              ELSE <<>>
    ELSE IF hour * TicksPerHour
                < (current_hour + 1) * TicksPerHour + driving_hours + TicksPerHour
         THEN IF hour = IntOf((current_hour + 1) * TicksPerHour + driving_hours,
                              TicksPerHour)
              THEN <<Pad2(hour) \o ":00 - Begin dropoff activities">>
              ELSE <<>>
    ELSE IF hour = IntOf((current_hour + 1) * TicksPerHour + driving_hours
                             + TicksPerHour, TicksPerHour)
         THEN <<Pad2(hour) \o ":00 - Off duty">>
         ELSE <<>>

\* The remarks of hours `hour`..23, in the order the loop appends them.
RECURSIVE RemarksFrom(_, _, _)
RemarksFrom(hour, current_hour, driving_hours) ==
    IF hour > 23 THEN <<>>
    ELSE RemarksOfHour(hour, current_hour, driving_hours)
         \o RemarksFrom(hour + 1, current_hour, driving_hours)

\* ELDLogGenerator.generate_log_for_trip; start_time is read for its hour
\* only and distance_miles is not read at all.
GenerateLogForTrip(start, driving_hours) ==
    LET current_hour == start.hour
        driving_time == DrivingTime(driving_hours)
        on_duty_time == driving_time + 120
        off_duty_time == 24 * 60 - on_duty_time
    IN  [time_entries |->
             [i \in 1..24 |->
                 [hour |-> i - 1,
                  status |-> StatusOfHour(i - 1, current_hour, driving_hours)]],
         driving_time |-> driving_time,
         on_duty_time |-> on_duty_time,
         off_duty_time |-> off_duty_time,
         sleeper_berth_time |-> 0,
         remarks |-> RemarksFrom(0, current_hour, driving_hours),
         is_compliant |-> /\ driving_hours <= 11 * TicksPerHour
                          /\ on_duty_time <= 14 * 60]

\* A log of generate_log_for_trip with 'date' and 'daily_miles' added
\* (lines 327-331 of services.py, lines 167-171 of views.py).
DatedLog(date, daily_miles, log_data) ==
    [date |-> date,
     daily_miles |-> daily_miles,
     time_entries |-> log_data.time_entries,
     driving_time |-> log_data.driving_time,
     on_duty_time |-> log_data.on_duty_time,
     off_duty_time |-> log_data.off_duty_time,
     sleeper_berth_time |-> log_data.sleeper_berth_time,
     remarks |-> log_data.remarks,
     is_compliant |-> log_data.is_compliant]

\* A day loop that forgets the 11-hour cap of a day.
DailyDrivingHours_NoCap(remaining) == remaining

\* daily_driving_hours = min(11, remaining_hours) (line 322)
DailyDrivingHours(remaining) == Min(11 * TicksPerHour, remaining)

\* round(daily_distance, 2) for daily_distance =
\* (daily_driving_hours / total_driving_hours) * total_distance (lines 323
\* and 329), in hundredths of a mile.
DailyMiles(daily_driving_hours, total_hours, distance) ==
    RoundOf(daily_driving_hours * distance, total_hours)

\* A day loop that forgets to shift the start hour by the 10-hour break.
NextDate_NoShift(date, hours_remain) ==
    [day |-> date.day + 1, hour |-> date.hour]

\* current_date after lines 335-341: a day later, and when hours remain, at
\* the hour ten hours on.
NextDate(date, hours_remain) ==
    [day |-> date.day + 1,
     hour |-> IF hours_remain THEN Max(0, (date.hour + 10) % 24) ELSE date.hour]

-----------------------------------------------------------------------------
(* Inputs of the ELD log generator *)

\* Fractions of an hour, in ticks: none, 0.6 of a minute, half an hour.
FractionInputs == {0, 3, 150}

HoursInputs ==
    {w * TicksPerHour + f : w \in 0..MaxDrivingHours, f \in FractionInputs}

\* Trip distances, in hundredths of a mile: 1234.56 miles (no branch of the
\* generator reads the distance).
DistanceInputs == {123456}

-----------------------------------------------------------------------------
(* Log synthesis as actions *)

InitELD ==
    /\ HosIdle
    /\ StopsIdle
    /\ TripIdle
    /\ call \in {"synthesize", "generate_multi_day_logs"}
    /\ start_time \in [day : {0}, hour : 0..23]
    /\ total_distance \in DistanceInputs
    /\ total_driving_hours \in HoursInputs
    /\ pc = "start"
    /\ logs = <<>>
    /\ current_date = [day |-> 0, hour |-> 0]
    /\ remaining_hours = 0
    /\ day_count = 0
    /\ daily = <<>>

\* TripViewSet.calculate, lines 160-171: a trip of at most 11 driving hours
\* gets the single log of generate_log_for_trip.
SynthesizeSingleDay ==
    /\ pc = "start"
    /\ call = "synthesize"
    /\ ~(total_driving_hours > 11 * TicksPerHour)
    /\ logs' = <<DatedLog(start_time, total_distance,
                          GenerateLogForTrip(start_time, total_driving_hours))>>
    /\ pc' = "done"
    /\ UNCHANGED <<call, start_time, total_distance, total_driving_hours,
                   current_date, remaining_hours, day_count, daily,
                   hosVars, stopVars, tripVars>>

\* generate_multi_day_logs up to its loop (lines 314-319), called directly
\* or by TripViewSet.calculate for more than 11 driving hours (lines
\* 151-159).
MultiDayEnter ==
    /\ pc = "start"
    /\ call = "synthesize" => total_driving_hours > 11 * TicksPerHour
    /\ logs' = <<>>
    /\ current_date' = start_time
    /\ remaining_hours' = total_driving_hours
    /\ day_count' = 1
    /\ pc' = "loop"
    /\ UNCHANGED <<call, start_time, total_distance, total_driving_hours,
                   daily, hosVars, stopVars, tripVars>>

\* One iteration of the while loop (lines 320-341).
MultiDayIterate ==
    /\ pc = "loop"
    /\ remaining_hours > 0
    /\ LET daily_driving_hours == DailyDrivingHours(remaining_hours)
           log_data == GenerateLogForTrip(current_date, daily_driving_hours)
       IN  /\ logs' = Append(logs,
                  DatedLog(current_date,
                           DailyMiles(daily_driving_hours, total_driving_hours,
                                      total_distance),
                           log_data))
           /\ remaining_hours' = remaining_hours - daily_driving_hours
           /\ current_date' =
                  NextDate(current_date,
                           remaining_hours - daily_driving_hours > 0)
           /\ daily' = Append(daily, daily_driving_hours)
    /\ day_count' = day_count + 1
    /\ UNCHANGED <<call, start_time, total_distance, total_driving_hours, pc,
                   hosVars, stopVars, tripVars>>

\* The loop's exit and return logs (lines 320 and 343).
MultiDayReturn ==
    /\ pc = "loop"
    /\ ~(remaining_hours > 0)
    /\ pc' = "done"
    /\ UNCHANGED <<call, start_time, total_distance, total_driving_hours, logs,
                   current_date, remaining_hours, day_count, daily,
                   hosVars, stopVars, tripVars>>

NextELD ==
    \/ SynthesizeSingleDay
    \/ MultiDayEnter
    \/ MultiDayIterate
    \/ MultiDayReturn

SpecELD == InitELD /\ [][NextELD]_vars

\* The loop is sequential code: a step that can be taken is taken.
SpecELDFair == SpecELD /\ WF_vars(NextELD)

-----------------------------------------------------------------------------
(* RouteCalculator._generate_stops *)

\* The arguments that no branch reads: the locations and their (lat, lon).
pickup_location == "Chicago, IL"

dropoff_location == "Denver, CO"

pickup_coords == <<41, -87>>

dropoff_coords == <<39, -104>>

\* A fuel planner that rounds the number of fuel intervals up.
FuelStopsNeeded_RoundedUp(distance) == (distance + 999) \div 1000

\* fuel_stops_needed = int(total_distance // 1000) (line 114); whole miles:
\* the fraction of a mile does not change the floor.
FuelStopsNeeded(distance) == distance \div 1000

\* rest_stops_needed = int((total_duration / 60) // 11) (lines 129-130);
\* whole minutes: the floor of minutes / 60 / 11 is that of minutes / 660.
RestStopsNeeded(duration) == duration \div (60 * 11)

\* The pickup stop (lines 101-110).
PickupStop(stop_id) ==
    [id |-> "pickup-" \o ToString(stop_id),
     type |-> "pickup",
     location |-> pickup_location,
     coordinates |-> <<pickup_coords[2], pickup_coords[1]>>,
     estimated_time |-> "1 hour",
     description |-> "Load pickup - 1 hour",
     duration |-> 60,
     required |-> TRUE]

\* The fuel stop of loop index i (from 0) (lines 116-125).
FuelStop(stop_id, i) ==
    [id |-> "fuel-" \o ToString(stop_id),
     type |-> "fuel",
     location |-> "Fuel Stop " \o ToString(i + 1),
     coordinates |-> <<pickup_coords[2], pickup_coords[1]>>,
     estimated_time |-> "30 minutes",
     description |-> "Required fuel stop",
     duration |-> 30,
     required |-> TRUE]

\* The rest stop of loop index i (from 0) (lines 132-141).
RestStop(stop_id, i) ==
    [id |-> "rest-" \o ToString(stop_id),
     type |-> "rest",
     location |-> "Rest Area " \o ToString(i + 1),
     coordinates |-> <<pickup_coords[2], pickup_coords[1]>>,
     estimated_time |-> "10 hours",
     description |-> "Required 10-hour rest break",
     duration |-> 600,
     required |-> TRUE]

\* The dropoff stop (lines 145-154).
DropoffStop(stop_id) ==
    [id |-> "dropoff-" \o ToString(stop_id),
     type |-> "dropoff",
     location |-> dropoff_location,
     coordinates |-> <<dropoff_coords[2], dropoff_coords[1]>>,
     estimated_time |-> "1 hour",
     description |-> "Unload delivery - 1 hour",
     duration |-> 60,
     required |-> TRUE]

\* RouteCalculator._generate_stops: stop_id starts at 1 and grows by one
\* with every stop appended.
GenerateStops(distance, duration) ==
    LET fuel_stops_needed == FuelStopsNeeded(distance)
        rest_stops_needed == RestStopsNeeded(duration)
    IN  <<PickupStop(1)>>
        \o [k \in 1..fuel_stops_needed |-> FuelStop(1 + k, k - 1)]
        \o [k \in 1..rest_stops_needed |->
               RestStop(1 + fuel_stops_needed + k, k - 1)]
        \o <<DropoffStop(2 + fuel_stops_needed + rest_stops_needed)>>

\* Route lengths in miles and durations in minutes: at, just after, in the
\* middle of and just before each multiple of the fuel and rest intervals.
RouteDistanceInputs ==
    {1000 * k + j : k \in 0..MaxFuelIntervals, j \in {0, 1, 500, 999}}

RouteDurationInputs ==
    {660 * k + j : k \in 0..MaxRestIntervals, j \in {0, 1, 240, 659}}

InitStops ==
    /\ HosIdle
    /\ EldIdle
    /\ TripIdle
    /\ route_distance \in RouteDistanceInputs
    /\ route_duration \in RouteDurationInputs
    /\ stops = <<>>

\* self._generate_stops(..., total_distance, total_duration)
CallGenerateStops ==
    /\ stops = <<>>
    /\ stops' = GenerateStops(route_distance, route_duration)
    /\ UNCHANGED <<route_distance, route_duration, hosVars, eldVars, tripVars>>

NextStops == CallGenerateStops

SpecStops == InitStops /\ [][NextStops]_vars

-----------------------------------------------------------------------------
(* TripViewSet.calculate and RouteCalculator.calculate_route                *)
(*                                                                         *)
(* The text of an exception is the sequence of the pieces its f-strings    *)
(* put together; "phrase in error_str" holds when one of the pieces        *)
(* contains the phrase (no phrase of the handler spans two of the pieces   *)
(* used here).                                                             *)

\* The phrases TripViewSet.calculate looks for, which a piece contains.
PhrasesIn(piece) ==
    CASE piece = "Could not find location: " -> {"Could not find location"}
      [] piece = "Could not find location" -> {"Could not find location"}
      [] piece = "Geocoding failed for " -> {"Geocoding failed"}
      [] piece = "No route found between locations" -> {"No route found"}
      [] OTHER -> {}

\* phrase in error_str
Contains(error_str, phrase) ==
    \E i \in 1..Len(error_str) : phrase \in PhrasesIn(error_str[i])

\* str(e) of what requests raises when a service times out or answers with
\* an error status.
ServiceErrors == {"Read timed out.", "503 Server Error: Service Unavailable"}

\* raise Exception(f"Could not find location: {location}")
CouldNotFind(location) == <<"Could not find location: ", location>>

\* raise Exception(f"Geocoding failed for {location}: {str(e)}")
GeocodingFailed(location, e) == <<"Geocoding failed for ", location, ": ">> \o e

\* raise Exception(f"Route calculation failed: {str(e)}")
RouteCalculationFailed(e) == <<"Route calculation failed: ">> \o e

\* raise Exception("No route found between locations")
NoRouteFound == <<"No route found between locations">>

\* Http404 of get_object_or_404(Driver, id=...)
DriverNotFound == <<"No Driver matches the given query.">>

\* An error handler that looks for "Geocoding failed" first.
ErrorResponse_GeocodingFirst(error_str) ==
    [status |-> 400,
     error |-> IF Contains(error_str, "Geocoding failed")
                 THEN "Address lookup service temporarily unavailable"
               ELSE IF Contains(error_str, "Could not find location")
                 THEN "Location not found"
               ELSE IF Contains(error_str, "No route found")
                 THEN "No route available"
               ELSE "Failed to calculate route",
     details |-> "",
     original_error |-> error_str]

\* The except branch of TripViewSet.calculate.
ErrorResponse(error_str) ==
    [status |-> 400,
     error |-> IF Contains(error_str, "Could not find location")
                 THEN "Location not found"
               ELSE IF Contains(error_str, "Geocoding failed")
                 THEN "Address lookup service temporarily unavailable"
               ELSE IF Contains(error_str, "No route found")
                 THEN "No route available"
               ELSE "Failed to calculate route",
     details |-> IF Contains(error_str, "Could not find location")
                 THEN "One or more locations could not be found. Please check spelling and try common city names."
               ELSE IF Contains(error_str, "Geocoding failed")
                 THEN "Our address lookup service is temporarily busy. Please try again in a moment or use major city names."
               ELSE IF Contains(error_str, "No route found")
                 THEN "No driving route could be found between these locations. Please check the addresses."
               ELSE "Please check your locations and try again",
     original_error |-> error_str]

\* '\n'.join(remarks)
RECURSIVE JoinLines(_)
JoinLines(remarks) ==
    IF remarks = <<>> THEN ""
    ELSE IF Len(remarks) = 1 THEN remarks[1]
    ELSE remarks[1] \o "\n" \o JoinLines(Tail(remarks))

\* The records of one table, in the order of creation.
Records(table) == SelectSeq(db, LAMBDA r : r.table = table)

\* The loop over eld_logs_data has created every EldLog.
AllLogsStored_Skipped == TRUE

AllLogsStored == Len(Records("EldLog")) = Len(logs)

\* The loop over violations_data has created every HosViolation.
AllViolationsStored == Len(Records("HosViolation")) = Len(violations)

\* The location of the k-th geocode_location call of calculate_route.
LocationOf(k) ==
    CASE k = 1 -> request.current_location
      [] k = 2 -> request.pickup_location
      [] OTHER -> request.dropoff_location

\* Requests: a current location that is a city, or one whose text is a
\* phrase of the error handler; a fresh cycle or one near its limit.
CurrentLocationInputs == {"Dallas, TX", "Could not find location"}

TripCycleInputs == {0, 5801}

\* Routes of the router: (miles, minutes); a single-day and a multi-day one.
RouteInputs == {<<300, 123>>, <<1500, 900>>}

\* Hours of the day of timezone.now().
NowInputs == {8, 20}

InitTrip ==
    /\ HosIdle
    /\ EldIdle
    /\ StopsIdle
    /\ step = "validate"
    /\ request \in [current_location : CurrentLocationInputs,
                    pickup_location : {pickup_location},
                    dropoff_location : {dropoff_location},
                    current_cycle_hours : TripCycleInputs]
    /\ geocoded = 0
    /\ route_data = None
    /\ db = <<>>
    /\ failure = None
    /\ http_response = None

\* What a failing step leaves: the except branch answers at once.
Fails(at, kind, error_str) ==
    /\ step' = "responded"
    /\ failure' = [at |-> at, kind |-> kind, text |-> error_str]
    /\ http_response' = ErrorResponse(error_str)

\* serializer.is_valid() (lines 115-118)
Validate ==
    /\ step = "validate"
    /\ \E valid \in BOOLEAN :
         IF valid
         THEN /\ step' = "driver"
              /\ UNCHANGED <<failure, http_response>>
         ELSE /\ step' = "responded"
              /\ failure' = [at |-> "request", kind |-> "invalid", text |-> <<>>]
              /\ http_response' = [status |-> 400, error |-> "Invalid trip data"]
    /\ UNCHANGED <<request, geocoded, route_data, db, hosVars, eldVars, stopVars>>

\* get_object_or_404(Driver, id=data['driver_id']) (line 124)
GetDriver ==
    /\ step = "driver"
    /\ \E found \in BOOLEAN :
         IF found
         THEN /\ step' = "geocode"
              /\ UNCHANGED <<failure, http_response>>
         ELSE Fails("persistence", "no_driver", DriverNotFound)
    /\ UNCHANGED <<request, geocoded, route_data, db, hosVars, eldVars, stopVars>>

\* One geocode_location call of calculate_route (lines 20-41, 47-49).
GeocodeLocation ==
    /\ step = "geocode"
    /\ LET location == LocationOf(geocoded + 1)
       IN  \/ /\ geocoded' = geocoded + 1
              /\ step' = IF geocoded + 1 = 3 THEN "route" ELSE "geocode"
              /\ UNCHANGED <<failure, http_response>>
           \/ /\ Fails("geocoder", "no_result",
                       RouteCalculationFailed(
                           GeocodingFailed(location, CouldNotFind(location))))
              /\ UNCHANGED geocoded
           \/ /\ \E e \in ServiceErrors :
                    Fails("geocoder", "service",
                          RouteCalculationFailed(GeocodingFailed(location, <<e>>)))
              /\ UNCHANGED geocoded
    /\ UNCHANGED <<request, route_data, db, hosVars, eldVars, stopVars>>

\* The router call of calculate_route (lines 54-74).
RequestRoute ==
    /\ step = "route"
    /\ \/ /\ \E r \in RouteInputs :
                /\ route_distance' = r[1]
                /\ route_duration' = r[2]
          /\ step' = "stops"
          /\ UNCHANGED <<failure, http_response>>
       \/ /\ Fails("router", "no_route", RouteCalculationFailed(NoRouteFound))
          /\ UNCHANGED <<route_distance, route_duration>>
       \/ /\ \E e \in ServiceErrors :
                Fails("router", "service", RouteCalculationFailed(<<e>>))
          /\ UNCHANGED <<route_distance, route_duration>>
    /\ UNCHANGED <<stops, request, geocoded, route_data, db, hosVars, eldVars>>

\* The stop planning and the return of calculate_route (lines 77-88):
\* total_distance rounded to hundredths of a mile, the duration to minutes.
PlanStops ==
    /\ step = "stops"
    /\ stops' = GenerateStops(route_distance, route_duration)
    /\ route_data' = [total_distance |-> route_distance * 100,
                      estimated_duration |-> route_duration,
                      stops |-> stops']
    /\ step' = "trip"
    /\ UNCHANGED <<route_distance, route_duration, request, geocoded, db,
                   failure, http_response, hosVars, eldVars>>

\* Trip.objects.create(...) (lines 135-144)
CreateTrip ==
    /\ step = "trip"
    /\ db' = Append(db, [table |-> "Trip",
                         current_location |-> request.current_location,
                         pickup_location |-> request.pickup_location,
                         dropoff_location |-> request.dropoff_location,
                         total_distance |-> route_data.total_distance,
                         estimated_duration |-> route_data.estimated_duration])
    /\ step' = "synthesize"
    /\ UNCHANGED <<request, geocoded, route_data, failure, http_response,
                   hosVars, eldVars, stopVars>>

\* driving_hours = estimated_duration / 60; start_time = timezone.now()
\* (lines 147-149); the generator then runs (SynthesizeSingleDay or the
\* MultiDay actions) until pc = "done".
BeginSynthesis ==
    /\ step = "synthesize"
    /\ pc = "idle"
    /\ \E hour \in NowInputs : start_time' = [day |-> 0, hour |-> hour]
    /\ call' = "synthesize"
    /\ total_distance' = route_data.total_distance
    /\ total_driving_hours' = (route_data.estimated_duration * TicksPerHour) \div 60
    /\ pc' = "start"
    /\ UNCHANGED <<logs, current_date, remaining_hours, day_count, daily,
                   hosVars, stopVars, tripVars>>

\* One EldLog.objects.create(...) of the loop of lines 174-189.
StoreLog ==
    /\ step = "synthesize"
    /\ pc = "done"
    /\ ~AllLogsStored
    /\ LET log_data == logs[Len(Records("EldLog")) + 1]
       IN  db' = Append(db, [table |-> "EldLog",
                             log_date |-> log_data.date,
                             total_miles |-> log_data.daily_miles,
                             driving_time |-> log_data.driving_time,
                             on_duty_time |-> log_data.on_duty_time,
                             off_duty_time |-> log_data.off_duty_time,
                             sleeper_berth_time |-> log_data.sleeper_berth_time,
                             time_entries |-> log_data.time_entries,
                             remarks |-> JoinLines(log_data.remarks),
                             is_compliant |-> log_data.is_compliant])
    /\ UNCHANGED <<step, request, geocoded, route_data, failure, http_response,
                   hosVars, eldVars, stopVars>>

\* hos_calculator.calculate_hos_status(current_time_entries,
\* float(data['current_cycle_hours'])) (lines 192-197)
EvaluateHosStatus ==
    /\ step = "synthesize"
    /\ pc = "done"
    /\ AllLogsStored
    /\ time_entries' = IF logs # <<>> THEN logs[1].time_entries ELSE <<>>
    /\ current_cycle_hours' = request.current_cycle_hours
    /\ hos_status' = CalculateHosStatus(time_entries', current_cycle_hours')
    /\ returned' = {"status"}
    /\ step' = "violations"
    /\ UNCHANGED <<violations, latest_log, response, request, geocoded,
                   route_data, db, failure, http_response, eldVars, stopVars>>

\* hos_calculator.calculate_violations(...) (lines 200-203)
EvaluateViolations ==
    /\ step = "violations"
    /\ violations' = CalculateViolations(time_entries, current_cycle_hours)
    /\ returned' = returned \cup {"violations"}
    /\ step' = "store_violations"
    /\ UNCHANGED <<time_entries, current_cycle_hours, hos_status, latest_log,
                   response, request, geocoded, route_data, db, failure,
                   http_response, eldVars, stopVars>>

\* One HosViolation.objects.create(...) of the loop of lines 205-214.
StoreViolation ==
    /\ step = "store_violations"
    /\ ~AllViolationsStored
    /\ LET violation == violations[Len(Records("HosViolation")) + 1]
       IN  db' = Append(db, [table |-> "HosViolation",
                             violation_type |-> violation.type,
                             description |-> violation.description,
                             severity |-> violation.severity])
    /\ UNCHANGED <<step, request, geocoded, route_data, failure, http_response,
                   hosVars, eldVars, stopVars>>

\* return Response({...}) (lines 216-228)
Respond ==
    /\ step = "store_violations"
    /\ AllViolationsStored
    /\ http_response' = [status |-> 200,
                         trip |-> Records("Trip")[1],
                         route |-> route_data,
                         eld_logs |-> Records("EldLog"),
                         hos_status |-> hos_status,
                         violations |-> Records("HosViolation")]
    /\ step' = "responded"
    /\ UNCHANGED <<request, geocoded, route_data, db, failure,
                   hosVars, eldVars, stopVars>>

NextTrip ==
    \/ Validate
    \/ GetDriver
    \/ GeocodeLocation
    \/ RequestRoute
    \/ PlanStops
    \/ CreateTrip
    \/ BeginSynthesis
    \/ SynthesizeSingleDay
    \/ MultiDayEnter
    \/ MultiDayIterate
    \/ MultiDayReturn
    \/ StoreLog
    \/ EvaluateHosStatus
    \/ EvaluateViolations
    \/ StoreViolation
    \/ Respond

SpecTrip == InitTrip /\ [][NextTrip]_vars

-----------------------------------------------------------------------------
(* Properties of the HOS calculator, stated apart from its code *)

\* The entries of the given statuses, counted by position.
NumWith(entries, S) ==
    Cardinality({i \in DOMAIN entries : entries[i].status \in S})

NumDriving == NumWith(time_entries, {"driving"})

NumOnDuty == NumWith(time_entries, {"on-duty"})

\* The number of consecutive driving entries at the end of the sequence.
TrailingStreak(entries) ==
    CHOOSE t \in 0..Len(entries) :
        /\ \A k \in (Len(entries) - t + 1)..Len(entries) :
               entries[k].status = "driving"
        /\ t = Len(entries) \/ entries[Len(entries) - t].status # "driving"

\* Some n consecutive entries, anywhere in the sequence, are all driving.
HasStreak(entries, n) ==
    \E i \in 1..(Len(entries) - n + 1) :
        \A k \in i..(i + n - 1) : entries[k].status = "driving"

\* A whole number of hours as _format_time writes it.
HoursText(h) == ToString(h) \o "h 00m"

StatusReturned == "status" \in returned

ViolationsReturned == "violations" \in returned

EndpointReturned == "endpoint" \in returned

\* C1: for a day of 24 hourly entries with d driving and o on-duty entries,
\* calculate_hos_status reports drive_time_left = max(0, 660 - 60d) minutes
\* and on_duty_left = max(0, 840 - 60(d + o)) minutes, whatever the order of
\* the entries and the cycle hours.
C1_TimeLeft ==
    (StatusReturned /\ Len(time_entries) = 24) =>
        /\ hos_status.drive_time_left = HoursText(Max(0, 11 - NumDriving))
        /\ hos_status.on_duty_left =
               HoursText(Max(0, 14 - (NumDriving + NumOnDuty)))

\* C1 witness: a 24-entry day with time left on both clocks, evaluated.
C1_Witness ==
    /\ StatusReturned
    /\ Len(time_entries) = 24
    /\ NumDriving = 5
    /\ NumOnDuty = 4
    /\ current_cycle_hours = 5601
    /\ hos_status.drive_time_left = "6h 00m"
    /\ hos_status.on_duty_left = "5h 00m"

\* The violation types calculate_violations is to return, in order.
ExpectedViolationTypes ==
    (IF 60 * NumDriving > 660 THEN <<"driving_limit">> ELSE <<>>)
    \o (IF 60 * (NumDriving + NumOnDuty) > 840 THEN <<"duty_limit">> ELSE <<>>)
    \o (IF current_cycle_hours + 100 * (NumDriving + NumOnDuty) > 7000
        THEN <<"duty_limit">> ELSE <<>>)
    \o (IF HasStreak(time_entries, 9) THEN <<"break_required">> ELSE <<>>)

\* The violations whose description names the 14-hour rule, and the 70-hour
\* rule: the overage is a whole number of hours (14-hour rule) or a decimal
\* number of hours (70-hour rule).
Rule14Violations ==
    {i \in DOMAIN violations :
        /\ NumDriving + NumOnDuty > 14
        /\ violations[i].description = "Exceeded 14-hour on-duty limit by "
               \o HoursText(NumDriving + NumOnDuty - 14)}

Rule70Violations ==
    {i \in DOMAIN violations :
        LET over == current_cycle_hours + 100 * (NumDriving + NumOnDuty) - 7000
        IN  /\ over > 0
            /\ violations[i].description = "Exceeded 70-hour cycle limit by "
                   \o FormatOneDecimal(over) \o " hours"}

\* C2: calculate_violations returns a driving_limit violation iff driving
\* minutes exceed 660, a duty_limit violation of the 14-hour rule iff on-duty
\* minutes exceed 840, a separate duty_limit violation of the cycle rule iff
\* cycle hours before plus on-duty hours exceed 70, and a break_required
\* violation iff some 9 consecutive entries are driving; at most one per
\* threshold, at most 4 in all, in that order.
C2_Violations ==
    ViolationsReturned =>
        /\ [i \in DOMAIN violations |-> violations[i].type]
               = ExpectedViolationTypes
        /\ Len(violations) <= 4
        /\ Cardinality(Rule14Violations)
               = (IF 60 * (NumDriving + NumOnDuty) > 840 THEN 1 ELSE 0)
        /\ Cardinality(Rule70Violations)
               = (IF current_cycle_hours + 100 * (NumDriving + NumOnDuty) > 7000
                  THEN 1 ELSE 0)
        /\ Rule14Violations \cap Rule70Violations = {}

\* C2 witness: all four thresholds exceeded at once, two duty_limit
\* violations side by side.
C2_Witness ==
    /\ ViolationsReturned
    /\ [i \in DOMAIN violations |-> violations[i].type]
           = <<"driving_limit", "duty_limit", "duty_limit", "break_required">>
    /\ Rule14Violations = {2}
    /\ Rule70Violations = {3}

\* C3: is_compliant is true exactly when driving minutes <= 660, on-duty
\* minutes <= 840, cycle hours before plus on-duty hours <= 70 and the
\* trailing driving streak <= 8, each limit inclusive.
C3_Compliant ==
    StatusReturned =>
        (hos_status.is_compliant <=>
            /\ 60 * NumDriving <= 660
            /\ 60 * (NumDriving + NumOnDuty) <= 840
            /\ current_cycle_hours + 100 * (NumDriving + NumOnDuty) <= 7000
            /\ TrailingStreak(time_entries) <= 8)

\* C3 witness: a day exactly at the driving, on-duty and cycle limits is
\* compliant.
C3_Witness ==
    /\ StatusReturned
    /\ NumDriving = 11
    /\ NumOnDuty = 3
    /\ current_cycle_hours = 5600
    /\ hos_status.is_compliant

\* C4: next_break is max(0, 480 - 60t) minutes for t the number of
\* consecutive driving entries at the end of the sequence, whatever longer
\* streak came earlier.
C4_NextBreak ==
    StatusReturned =>
        hos_status.next_break
            = HoursText(Max(0, 8 - TrailingStreak(time_entries)))

\* C4 witness: a streak of 9 early in the day, a break, and 2 driving
\* entries at the end: next_break is 6 hours.
C4_Witness ==
    /\ StatusReturned
    /\ HasStreak(time_entries, 9)
    /\ TrailingStreak(time_entries) = 2
    /\ hos_status.next_break = "6h 00m"

\* C5: when the longest driving streak exceeds 8 entries but the trailing
\* streak does not, and the driving, on-duty and cycle limits are kept,
\* calculate_violations returns a break_required violation while
\* calculate_hos_status, on the same inputs, returns is_compliant = true.
C5_Asymmetry ==
    ( /\ StatusReturned
      /\ ViolationsReturned
      /\ HasStreak(time_entries, 9)
      /\ TrailingStreak(time_entries) <= 8
      /\ 60 * NumDriving <= 660
      /\ 60 * (NumDriving + NumOnDuty) <= 840
      /\ current_cycle_hours + 100 * (NumDriving + NumOnDuty) <= 7000 )
    => /\ \E i \in DOMAIN violations : violations[i].type = "break_required"
       /\ hos_status.is_compliant

\* C5 witness: 9 driving entries and then rest: a violation is listed and
\* the status is compliant.
C5_Witness ==
    /\ StatusReturned
    /\ ViolationsReturned
    /\ HasStreak(time_entries, 9)
    /\ TrailingStreak(time_entries) = 0
    /\ Len(violations) = 1
    /\ violations[1].type = "break_required"
    /\ hos_status.is_compliant

\* C6: with no entries and cycle hours <= 70, calculate_hos_status returns
\* is_compliant with "11h 00m", "14h 00m" and "8h 00m" left and
\* calculate_violations returns nothing; the status the hos-status endpoint
\* returns for a driver with no log, or a log with no entries, has the same
\* four values.
C6_Empty ==
    /\ (StatusReturned /\ time_entries = <<>> /\ current_cycle_hours <= 7000) =>
           /\ hos_status.is_compliant
           /\ hos_status.drive_time_left = "11h 00m"
           /\ hos_status.on_duty_left = "14h 00m"
           /\ hos_status.next_break = "8h 00m"
    /\ (ViolationsReturned /\ time_entries = <<>> /\ current_cycle_hours <= 7000)
           => violations = <<>>
    /\ (EndpointReturned /\ (latest_log = None \/ latest_log.time_entries = <<>>))
           => /\ response.is_compliant
              /\ response.drive_time_left = "11h 00m"
              /\ response.on_duty_left = "14h 00m"
              /\ response.next_break = "8h 00m"

\* C6 witness: the empty sequence at 70 cycle hours, evaluated by both
\* calculator calls, and the endpoint answering for a driver whose latest log
\* has no entries.
C6_Witness ==
    /\ time_entries = <<>>
    /\ current_cycle_hours = 7000
    /\ StatusReturned /\ ViolationsReturned /\ EndpointReturned
    /\ latest_log # None
    /\ hos_status.is_compliant
    /\ violations = <<>>
    /\ response.drive_time_left = "11h 00m"

-----------------------------------------------------------------------------
(* Properties of the ELD log generator *)

SynthesisDone == pc = "done"

\* The day loop ran: generate_multi_day_logs was called, by the view or
\* directly.
MultiDayRan ==
    \/ call = "generate_multi_day_logs"
    \/ total_driving_hours > 11 * TicksPerHour

RECURSIVE SumOf(_)
SumOf(seq) == IF seq = <<>> THEN 0 ELSE Head(seq) + SumOf(Tail(seq))

\* ceil(total_driving_hours / 11), of hours given in ticks.
DaysNeeded(hours) ==
    (hours + 11 * TicksPerHour - 1) \div (11 * TicksPerHour)

\* C7: synthesis of a trip of at most 11 driving hours returns exactly one
\* DailyLog, whose driving_time is round(total_driving_hours * 60) minutes
\* and whose on_duty_time is driving_time + 120.
C7_SingleDayRounded ==
    ( /\ SynthesisDone
      /\ call = "synthesize"
      /\ total_driving_hours <= 11 * TicksPerHour )
    => /\ Len(logs) = 1
       /\ logs[1].driving_time = RoundOf(total_driving_hours * 60, TicksPerHour)
       /\ logs[1].on_duty_time = logs[1].driving_time + 120

\* C8: for more than zero driving hours the day loop of
\* generate_multi_day_logs terminates and returns ceil(H / 11) logs dated on
\* consecutive days; each day drives at most 11 hours, each day but the last
\* exactly 11, and the days' driving hours sum to H.
C8_MultiDay ==
    /\ <>SynthesisDone
    /\ []( ( SynthesisDone /\ MultiDayRan /\ total_driving_hours > 0 ) =>
             /\ Len(logs) = DaysNeeded(total_driving_hours)
             /\ Len(daily) = Len(logs)
             /\ \A k \in DOMAIN logs :
                    /\ logs[k].date.day = start_time.day + (k - 1)
                    /\ daily[k] <= 11 * TicksPerHour
                    /\ logs[k].driving_time <= 11 * 60
                    /\ k < Len(logs) =>
                           /\ daily[k] = 11 * TicksPerHour
                           /\ logs[k].driving_time = 11 * 60
             /\ SumOf(daily) = total_driving_hours )

\* C8 witness: 25 driving hours end as three days of 11, 11 and 3 hours.
C8_Witness ==
    /\ SynthesisDone
    /\ call = "generate_multi_day_logs"
    /\ total_driving_hours = 25 * TicksPerHour
    /\ Len(logs) = 3
    /\ daily = <<11 * TicksPerHour, 11 * TicksPerHour, 3 * TicksPerHour>>
    /\ logs[3].driving_time = 180

\* The driving hours (ticks) of the k-th log: the loop's daily_driving_hours,
\* or the trip's hours when the single-day branch made the log.
DayHours(k) == IF daily # <<>> THEN daily[k] ELSE total_driving_hours

DutyStatuses == {"driving", "on-duty"}

\* The entries after the last driving or on-duty entry of a day.
TrailingRest(entries) ==
    Len(entries)
      - Max(0, CHOOSE i \in 0..Len(entries) :
                 /\ i > 0 => entries[i].status \in DutyStatuses
                 /\ \A j \in (i + 1)..Len(entries) :
                        entries[j].status \notin DutyStatuses)

\* The entries before the first on-duty entry of a day (every synthesized
\* day has one, at its start hour).
LeadingRest(entries) ==
    (CHOOSE i \in 1..Len(entries) :
        /\ entries[i].status = "on-duty"
        /\ \A j \in 1..(i - 1) : entries[j].status # "on-duty") - 1

\* C13: in a multi-day synthesis, reading consecutive days' timelines back
\* to back, at least 10 consecutive entries that are neither driving nor
\* on-duty lie between the last driving/on-duty entry of a day and the first
\* on-duty entry of the next day.
C13_TenHourBreak ==
    (MultiDayRan /\ total_driving_hours > 11 * TicksPerHour) =>
        \A k \in 1..(Len(logs) - 1) :
            /\ \A j \in 1..LeadingRest(logs[k + 1].time_entries) :
                   logs[k + 1].time_entries[j].status \notin DutyStatuses
            /\ TrailingRest(logs[k].time_entries)
                   + LeadingRest(logs[k + 1].time_entries) >= 10

\* C14: in a multi-day synthesis started at hour h0, the k-th log (k from 0)
\* is dated k days after the start and anchored at hour (h0 + 10k) mod 24,
\* an hour of 0..23: its first on-duty entry is at that hour.
C14_DayAnchors ==
    MultiDayRan =>
        \A k \in DOMAIN logs :
            LET h == (start_time.hour + 10 * (k - 1)) % 24
            IN  /\ logs[k].date.day = start_time.day + (k - 1)
                /\ logs[k].date.hour = h
                /\ h \in 0..23
                /\ LeadingRest(logs[k].time_entries) = h

\* C14 witness: three days started at hour 20 are anchored at 20, 6 and 16.
C14_Witness ==
    /\ SynthesisDone
    /\ MultiDayRan
    /\ start_time.hour = 20
    /\ Len(logs) = 3
    /\ logs[2].date = [day |-> 1, hour |-> 6]
    /\ logs[3].date = [day |-> 2, hour |-> 16]

\* The status the timeline of a day anchored at hour h with d driving hours
\* (ticks) is to have at hour x.
ExpectedStatus(x, h, d) ==
    CASE x < h -> "off-duty"
      [] x = h -> "on-duty"
      [] /\ (h + 1) * TicksPerHour <= x * TicksPerHour
         /\ x * TicksPerHour < (h + 1) * TicksPerHour + d -> "driving"
      [] /\ (h + 1) * TicksPerHour + d <= x * TicksPerHour
         /\ x * TicksPerHour < (h + 2) * TicksPerHour + d -> "on-duty"
      [] OTHER -> "off-duty"

\* C15: every synthesized log has exactly 24 entries, hours 0..23 ascending,
\* and for a day anchored at hour h with driving hours d hour x is off-duty
\* if x < h, on-duty if x = h, driving if h+1 <= x < h+1+d, on-duty if
\* h+1+d <= x < h+2+d, off-duty otherwise; sleeper-berth never occurs.
C15_Timeline ==
    \A k \in DOMAIN logs :
        /\ DOMAIN logs[k].time_entries = 1..24
        /\ \A i \in 1..24 :
               /\ logs[k].time_entries[i].hour = i - 1
               /\ logs[k].time_entries[i].status
                      = ExpectedStatus(i - 1, logs[k].date.hour, DayHours(k))
               /\ logs[k].time_entries[i].status # "sleeper-berth"

\* C15 witness: a day anchored at hour 5 with 2.5 driving hours drives in
\* hours 6, 7 and 8 and drops off in hour 9.
C15_Witness ==
    /\ SynthesisDone
    /\ Len(logs) = 1
    /\ logs[1].date.hour = 5
    /\ DayHours(1) = 2 * TicksPerHour + 150
    /\ logs[1].time_entries[9].status = "driving"
    /\ logs[1].time_entries[10].status = "on-duty"
    /\ logs[1].time_entries[11].status = "off-duty"

\* The remarks of one kind, whatever hour they are stamped with.
RemarksOfKind(text) == {Pad2(x) \o ":00 - " \o text : x \in 0..23}

\* How many remarks of a sequence are in a set.
NumRemarks(remarks, S) == Cardinality({i \in DOMAIN remarks : remarks[i] \in S})

\* C16: in a multi-day synthesis the pickup remark is emitted once, at the
\* start hour of the first day: the remarks of a later day hold none.
C16_PickupOnce ==
    MultiDayRan =>
        \A k \in DOMAIN logs :
            IF k = 1
            THEN /\ NumRemarks(logs[k].remarks,
                               RemarksOfKind("Begin pickup activities")) = 1
                 /\ logs[k].remarks[1] = Pad2(start_time.hour)
                        \o ":00 - Begin pickup activities"
            ELSE NumRemarks(logs[k].remarks,
                            RemarksOfKind("Begin pickup activities")) = 0

\* The hours after the start hour at which a day's entry has a status.
HoursAfterStart(log, status) ==
    {x \in 0..23 : x > log.date.hour /\ log.time_entries[x + 1].status = status}

\* The least hour of a non-empty set of hours.
FirstHour(S) == CHOOSE x \in S : \A y \in S : x <= y

\* C17: for driving hours in [0, 11], whole or fractional, a day whose
\* timeline has a dropoff on-duty entry has exactly one 'Begin dropoff
\* activities' remark, stamped with the hour of the first such entry; and a
\* day with an off-duty entry after the dropoff has exactly one 'Off duty'
\* remark, stamped with the hour of the first such entry.
C17_BoundaryRemarks ==
    \A k \in DOMAIN logs :
        (DayHours(k) >= 0 /\ DayHours(k) <= 11 * TicksPerHour) =>
            /\ HoursAfterStart(logs[k], "on-duty") # {} =>
                   /\ NumRemarks(logs[k].remarks,
                          RemarksOfKind("Begin dropoff activities")) = 1
                   /\ \E i \in DOMAIN logs[k].remarks :
                          logs[k].remarks[i] =
                              Pad2(FirstHour(HoursAfterStart(logs[k], "on-duty")))
                                  \o ":00 - Begin dropoff activities"
            /\ HoursAfterStart(logs[k], "off-duty") # {} =>
                   /\ NumRemarks(logs[k].remarks, RemarksOfKind("Off duty")) = 1
                   /\ \E i \in DOMAIN logs[k].remarks :
                          logs[k].remarks[i] =
                              Pad2(FirstHour(HoursAfterStart(logs[k], "off-duty")))
                                  \o ":00 - Off duty"

\* C18: every synthesized log has sleeper_berth_time = 0, off_duty_time =
\* 1440 - on_duty_time, on_duty_time = driving_time + 120, and each of
\* driving_time, on_duty_time and off_duty_time a non-negative integer.
C18_Aggregates ==
    \A k \in DOMAIN logs :
        /\ logs[k].sleeper_berth_time = 0
        /\ logs[k].off_duty_time = 1440 - logs[k].on_duty_time
        /\ logs[k].on_duty_time = logs[k].driving_time + 120
        /\ logs[k].driving_time \in Nat
        /\ logs[k].on_duty_time \in Nat
        /\ logs[k].off_duty_time \in Nat
        /\ logs[k].on_duty_time + logs[k].off_duty_time
               + logs[k].sleeper_berth_time = 1440

\* C18 witness: 25.5 hours synthesized as three days, the last of 3.5 hours:
\* 210 driving, 330 on-duty and 1110 off-duty minutes.
C18_Witness ==
    /\ SynthesisDone
    /\ total_driving_hours = 25 * TicksPerHour + 150
    /\ Len(logs) = 3
    /\ logs[3].driving_time = 210
    /\ logs[3].on_duty_time = 330
    /\ logs[3].off_duty_time = 1110

\* C19: every synthesized log with a whole number of driving hours agrees
\* with its timeline, for every start hour: 60 times its driving entries is
\* its driving_time and 60 times its driving and on-duty entries is its
\* on_duty_time.
C19_TimelineMatchesAggregates ==
    \A k \in DOMAIN logs :
        DayHours(k) % TicksPerHour = 0 =>
            /\ 60 * NumWith(logs[k].time_entries, {"driving"})
                   = logs[k].driving_time
            /\ 60 * NumWith(logs[k].time_entries, DutyStatuses)
                   = logs[k].on_duty_time

-----------------------------------------------------------------------------
(* Properties of the stop planner *)

StopsReturned == stops # <<>>

\* C9: _generate_stops returns the single pickup stop (60 min) first and the
\* single dropoff stop (60 min) last, with floor(miles / 1000) fuel stops
\* (30 min each) and then floor(minutes / 60 / 11) rest stops (600 min each)
\* in between, every stop required.
C9_StopPlan ==
    StopsReturned =>
        LET f == route_distance \div 1000
            r == route_duration \div 660
        IN  /\ Len(stops) = 2 + f + r
            /\ stops[1].type = "pickup" /\ stops[1].duration = 60
            /\ stops[Len(stops)].type = "dropoff"
            /\ stops[Len(stops)].duration = 60
            /\ \A k \in 2..(1 + f) :
                   stops[k].type = "fuel" /\ stops[k].duration = 30
            /\ \A k \in (2 + f)..(1 + f + r) :
                   stops[k].type = "rest" /\ stops[k].duration = 600
            /\ \A k \in DOMAIN stops : stops[k].required
            /\ Cardinality({k \in DOMAIN stops : stops[k].type = "pickup"}) = 1
            /\ Cardinality({k \in DOMAIN stops : stops[k].type = "dropoff"}) = 1

\* C9 witness: 2500 miles and 900 minutes give pickup, 2 fuel stops, 1 rest
\* stop, dropoff.
C9_Witness ==
    /\ route_distance = 2500
    /\ route_duration = 900
    /\ StopsReturned
    /\ [k \in DOMAIN stops |-> stops[k].type]
           = <<"pickup", "fuel", "fuel", "rest", "dropoff">>

-----------------------------------------------------------------------------
(* Properties of the trip-planning workflow *)

\* How far a run has come, read from what it has produced.
GeocodingDone == geocoded = 3

RoutingDone == route_duration # 0

StopPlanningDone == route_data # None

SynthesisStarted == pc # "idle"

SynthesisCompleted == pc = "done"

HosEvaluated == {"status", "violations"} \subseteq returned

Succeeded == http_response # None /\ http_response.status = 200

\* The tables of the records created, in the order of creation.
TablesWritten == [i \in 1..Len(db) |-> db[i].table]

TableRank(table) ==
    CASE table = "Trip" -> 1
      [] table = "EldLog" -> 2
      [] OTHER -> 3

\* C11 as stated: persistence comes only after HOS evaluation: no Trip,
\* EldLog or HosViolation record is written before the HOS status and the
\* violations have been computed.
C11_PersistAfterHos == db # <<>> => HosEvaluated

\* C11, amended: the steps happen in the order geocoding of the three
\* locations, routing, stop planning, creation of the Trip record, ELD log
\* synthesis, creation of one EldLog record per synthesized log, HOS status,
\* HOS violations, creation of one HosViolation record per violation,
\* response.  Persistence is interleaved with the computation: only the
\* HosViolation records wait for HOS evaluation.
C11_Order ==
    /\ RoutingDone => GeocodingDone
    /\ StopPlanningDone => RoutingDone /\ route_data.stops = stops
    /\ db # <<>> => StopPlanningDone /\ TablesWritten[1] = "Trip"
    /\ Len(Records("Trip")) <= 1
    /\ SynthesisStarted => Len(Records("Trip")) = 1
    /\ ~SynthesisCompleted => Len(db) <= 1 /\ returned = {}
    /\ \A i \in 1..Len(db) : \A j \in i..Len(db) :
          TableRank(db[i].table) <= TableRank(db[j].table)
    /\ Len(Records("EldLog")) <= Len(logs)
    /\ "status" \in returned =>
          /\ Len(Records("EldLog")) = Len(logs)
          /\ \A k \in 1..Len(logs) :
                Records("EldLog")[k].time_entries = logs[k].time_entries
    /\ "violations" \in returned => "status" \in returned
    /\ Records("HosViolation") # <<>> => HosEvaluated
    /\ Len(Records("HosViolation")) <= Len(violations)
    /\ Succeeded =>
          /\ HosEvaluated
          /\ Len(Records("HosViolation")) = Len(violations)
          /\ http_response.eld_logs = Records("EldLog")
          /\ http_response.violations = Records("HosViolation")

\* A successful multi-day run that wrote records of all three tables.
C11_Witness ==
    /\ Succeeded
    /\ Len(Records("Trip")) = 1
    /\ Len(Records("EldLog")) = 2
    /\ Len(Records("HosViolation")) >= 1

\* A run that ended in the except branch because a collaborator failed.
CollaboratorFailed ==
    /\ http_response # None
    /\ failure # None
    /\ failure.at \in {"geocoder", "router", "persistence"}

FailedWith(at, kind) ==
    CollaboratorFailed /\ failure.at = at /\ failure.kind = kind

\* The location of the geocode_location call that failed.
FailedLocation == LocationOf(geocoded + 1)

\* C12 as stated: every collaborator failure gets one of three messages:
\* no geocoder result 'Location not found', any other geocoder failure
\* 'Address lookup service temporarily unavailable', no route 'No route
\* available'; original_error is the raw error text.
C12_ThreeCategories ==
    CollaboratorFailed =>
        /\ http_response.error \in
              {"Location not found",
               "Address lookup service temporarily unavailable",
               "No route available"}
        /\ FailedWith("geocoder", "no_result") =>
              http_response.error = "Location not found"
        /\ FailedWith("geocoder", "service") =>
              http_response.error =
                  "Address lookup service temporarily unavailable"
        /\ FailedWith("router", "no_route") =>
              http_response.error = "No route available"
        /\ http_response.original_error = failure.text

\* C12, amended: there are four categories.  No geocoder result gives
\* 'Location not found'; any other geocoder failure gives 'Address lookup
\* service temporarily unavailable', unless the text of the failed location
\* itself holds the phrase 'Could not find location', which gives 'Location
\* not found'; no route gives 'No route available'; a router service failure
\* and a missing driver give the default 'Failed to calculate route'.  The
\* status is 400 and original_error is the text of the caught exception.
C12_Classification ==
    CollaboratorFailed =>
        /\ http_response.status = 400
        /\ FailedWith("geocoder", "no_result") =>
              http_response.error = "Location not found"
        /\ FailedWith("geocoder", "service") =>
              http_response.error =
                  IF "Could not find location" \in PhrasesIn(FailedLocation)
                  THEN "Location not found"
                  ELSE "Address lookup service temporarily unavailable"
        /\ FailedWith("router", "no_route") =>
              http_response.error = "No route available"
        /\ FailedWith("router", "service") =>
              http_response.error = "Failed to calculate route"
        /\ FailedWith("persistence", "no_driver") =>
              http_response.error = "Failed to calculate route"
        /\ http_response.original_error = failure.text
        /\ failure.text # <<>>

\* The geocoder found nothing for the dropoff location, the third one.
C12_Witness ==
    /\ FailedWith("geocoder", "no_result")
    /\ geocoded = 2
    /\ http_response.error = "Location not found"
    /\ http_response.original_error =
          <<"Route calculation failed: ", "Geocoding failed for ",
            dropoff_location, ": ", "Could not find location: ",
            dropoff_location>>

=============================================================================
